---------------------------- MODULE Spec2Model ----------------------------
(***************************************************************************)
(* A model of the rules engine of gk_chess_engine (src/src/main.rs):       *)
(* struct Board (squares, white_to_move, game_state), its move legality    *)
(* rules (is_valid_move), its move execution (make_move) and its end of    *)
(* game tests (is_checkmate, is_stalemate), and of the click handling of   *)
(* struct ChessApp (selected, game_over) on top of it.                     *)
(*                                                                         *)
(* Rows and columns are 0..7 as in the source: row 0 is black's back rank, *)
(* row 7 is white's back rank, column 0 is file a.                         *)
(***************************************************************************)
EXTENDS Integers, Sequences, FiniteSets, TLC

Coord == 0..7

Abs(x) == IF x < 0 THEN -x ELSE x

(***************************************************************************)
(* enum Piece and its predicates.                                          *)
(***************************************************************************)
Empty == "Empty"

WhitePieces ==
    {"PawnWhite", "RookWhite", "KnightWhite", "BishopWhite", "QueenWhite", "KingWhite"}

BlackPieces ==
    {"PawnBlack", "RookBlack", "KnightBlack", "BishopBlack", "QueenBlack", "KingBlack"}

Piece == {Empty} \cup WhitePieces \cup BlackPieces

is_white(p) == p \in WhitePieces

is_black(p) == p \in BlackPieces

is_empty(p) == p = Empty

\* a faulty variant of is_same_color: two black pieces are not recognised
is_same_color_white_only(p, other) ==
    is_white(p) /\ is_white(other)

is_same_color(p, other) ==
    (is_white(p) /\ is_white(other)) \/ (is_black(p) /\ is_black(other))

is_pawn(p) == p \in {"PawnWhite", "PawnBlack"}

is_king(p) == p \in {"KingWhite", "KingBlack"}

(***************************************************************************)
(* Option<(usize, usize)>: None is the empty tuple, Some((r, c)) is <<r,c>>*)
(***************************************************************************)
None == <<>>

Some(r, c) == <<r, c>>

(***************************************************************************)
(* GameState::default() and Board::new().                                  *)
(***************************************************************************)
GameStateDefault ==
    [ white_king_moved           |-> FALSE,
      black_king_moved           |-> FALSE,
      white_rook_queenside_moved |-> FALSE,
      white_rook_kingside_moved  |-> FALSE,
      black_rook_queenside_moved |-> FALSE,
      black_rook_kingside_moved  |-> FALSE,
      en_passant_target          |-> None ]

BackRank(rook, knight, bishop, queen, king) ==
    [c \in Coord |->
        CASE c \in {0, 7} -> rook
          [] c \in {1, 6} -> knight
          [] c \in {2, 5} -> bishop
          [] c = 3        -> queen
          [] c = 4        -> king]

BoardNew ==
    [ squares |->
        [r \in Coord |->
            CASE r = 0 -> BackRank("RookBlack", "KnightBlack", "BishopBlack",
                                   "QueenBlack", "KingBlack")
              [] r = 1 -> [c \in Coord |-> "PawnBlack"]
              [] r = 6 -> [c \in Coord |-> "PawnWhite"]
              [] r = 7 -> BackRank("RookWhite", "KnightWhite", "BishopWhite",
                                   "QueenWhite", "KingWhite")
              [] OTHER -> [c \in Coord |-> Empty]],
      white_to_move |-> TRUE,
      game_state    |-> GameStateDefault ]

(***************************************************************************)
(* Board::is_path_clear: the while loop, one recursion per iteration.      *)
(* It is only called with an aligned displacement (same row, same column   *)
(* or equal absolute deltas), so the walk ends on the destination.         *)
(***************************************************************************)
Sign(d) == IF d > 0 THEN 1 ELSE IF d < 0 THEN -1 ELSE 0

RECURSIVE PathScan(_, _, _, _, _, _, _)
PathScan(self, current_row, current_col, row_dir, col_dir, to_row, to_col) ==
    IF current_row = to_row /\ current_col = to_col
    THEN TRUE
    ELSE IF ~is_empty(self.squares[current_row][current_col])
         THEN FALSE
         ELSE PathScan(self, current_row + row_dir, current_col + col_dir,
                       row_dir, col_dir, to_row, to_col)

\* a faulty variant of is_path_clear: only the square next to the origin is read
is_path_clear_next_square(self, from_row, from_col, to_row, to_col) ==
    LET row_dir == Sign(to_row - from_row)
        col_dir == Sign(to_col - from_col)
    IN  \/ from_row + row_dir = to_row /\ from_col + col_dir = to_col
        \/ is_empty(self.squares[from_row + row_dir][from_col + col_dir])

is_path_clear(self, from_row, from_col, to_row, to_col) ==
    LET row_dir == Sign(to_row - from_row)
        col_dir == Sign(to_col - from_col)
    IN  PathScan(self, from_row + row_dir, from_col + col_dir,
                 row_dir, col_dir, to_row, to_col)

(***************************************************************************)
(* The shape rules of rook, knight, bishop and queen.                      *)
(***************************************************************************)
is_rook_move_valid(self, from_row, from_col, to_row, to_col) ==
    IF from_row # to_row /\ from_col # to_col
    THEN FALSE
    ELSE is_path_clear(self, from_row, from_col, to_row, to_col)

\* a faulty variant of is_knight_move_valid: only one row and two columns
is_knight_move_valid_one_shape(self, from_row, from_col, to_row, to_col) ==
    Abs(to_row - from_row) = 1 /\ Abs(to_col - from_col) = 2

is_knight_move_valid(self, from_row, from_col, to_row, to_col) ==
    LET row_diff == Abs(to_row - from_row)
        col_diff == Abs(to_col - from_col)
    IN  (row_diff = 2 /\ col_diff = 1) \/ (row_diff = 1 /\ col_diff = 2)

is_bishop_move_valid(self, from_row, from_col, to_row, to_col) ==
    LET row_diff == Abs(to_row - from_row)
        col_diff == Abs(to_col - from_col)
    IN  IF row_diff # col_diff
        THEN FALSE
        ELSE is_path_clear(self, from_row, from_col, to_row, to_col)

is_queen_move_valid(self, from_row, from_col, to_row, to_col) ==
    \/ is_rook_move_valid(self, from_row, from_col, to_row, to_col)
    \/ is_bishop_move_valid(self, from_row, from_col, to_row, to_col)

(***************************************************************************)
(* Board::can_piece_attack and Board::is_square_under_attack.              *)
(***************************************************************************)
\* a faulty variant of can_piece_attack: a pawn attacks the square it advances to
can_piece_attack_as_it_moves(self, piece, from_row, from_col, to_row, to_col) ==
    CASE piece = "PawnWhite" ->
            to_row - from_row = -1 /\ to_col = from_col
      [] piece = "PawnBlack" ->
            to_row - from_row = 1 /\ to_col = from_col
      [] piece \in {"RookWhite", "RookBlack"} ->
            is_rook_move_valid(self, from_row, from_col, to_row, to_col)
      [] piece \in {"KnightWhite", "KnightBlack"} ->
            is_knight_move_valid(self, from_row, from_col, to_row, to_col)
      [] piece \in {"BishopWhite", "BishopBlack"} ->
            is_bishop_move_valid(self, from_row, from_col, to_row, to_col)
      [] piece \in {"QueenWhite", "QueenBlack"} ->
            is_queen_move_valid(self, from_row, from_col, to_row, to_col)
      [] piece \in {"KingWhite", "KingBlack"} ->
            Abs(to_row - from_row) <= 1 /\ Abs(to_col - from_col) <= 1
      [] OTHER -> FALSE

can_piece_attack(self, piece, from_row, from_col, to_row, to_col) ==
    CASE piece = "PawnWhite" ->
            to_row - from_row = -1 /\ Abs(to_col - from_col) = 1
      [] piece = "PawnBlack" ->
            to_row - from_row = 1 /\ Abs(to_col - from_col) = 1
      [] piece \in {"RookWhite", "RookBlack"} ->
            is_rook_move_valid(self, from_row, from_col, to_row, to_col)
      [] piece \in {"KnightWhite", "KnightBlack"} ->
            is_knight_move_valid(self, from_row, from_col, to_row, to_col)
      [] piece \in {"BishopWhite", "BishopBlack"} ->
            is_bishop_move_valid(self, from_row, from_col, to_row, to_col)
      [] piece \in {"QueenWhite", "QueenBlack"} ->
            is_queen_move_valid(self, from_row, from_col, to_row, to_col)
      [] piece \in {"KingWhite", "KingBlack"} ->
            Abs(to_row - from_row) <= 1 /\ Abs(to_col - from_col) <= 1
      [] OTHER -> FALSE

is_square_under_attack(self, row, col, by_white) ==
    \E r \in Coord, c \in Coord :
        LET piece == self.squares[r][c]
        IN  /\ ~is_empty(piece)
            /\ (by_white /\ is_white(piece)) \/ (~by_white /\ is_black(piece))
            /\ can_piece_attack(self, piece, r, c, row, col)

(***************************************************************************)
(* Board::find_king: the first square in row-major order holding the king  *)
(* of the colour, or None.                                                 *)
(***************************************************************************)
find_king(self, white) ==
    LET target_king == IF white THEN "KingWhite" ELSE "KingBlack"
        found == {i \in 0..63 : self.squares[i \div 8][i % 8] = target_king}
    IN  IF found = {}
        THEN None
        ELSE LET i == CHOOSE k \in found : \A j \in found : k <= j
             IN  Some(i \div 8, i % 8)

is_in_check(self, white) ==
    LET king_pos == find_king(self, white)
    IN  IF king_pos # None
        THEN is_square_under_attack(self, king_pos[1], king_pos[2], ~white)
        ELSE FALSE

(***************************************************************************)
(* Board::make_move_unchecked and Board::would_be_in_check_after_move: the *)
(* scratch copy moves the one piece and nothing else.                      *)
(***************************************************************************)
make_move_unchecked(self, from_row, from_col, to_row, to_col) ==
    LET piece == self.squares[from_row][from_col]
    IN  [self EXCEPT !.squares[to_row][to_col] = piece,
                     !.squares[from_row][from_col] = Empty]

\* a faulty variant of would_be_in_check_after_move: the king of the side not to move
\* is looked for on the scratch copy
would_be_in_check_of_other_king(self, from_row, from_col, to_row, to_col) ==
    LET temp_board == make_move_unchecked(self, from_row, from_col, to_row, to_col)
        king_pos   == find_king(temp_board, ~self.white_to_move)
    IN  IF king_pos # None
        THEN is_square_under_attack(temp_board, king_pos[1], king_pos[2],
                                    self.white_to_move)
        ELSE FALSE

would_be_in_check_after_move(self, from_row, from_col, to_row, to_col) ==
    LET temp_board == make_move_unchecked(self, from_row, from_col, to_row, to_col)
        king_pos   == find_king(temp_board, self.white_to_move)
    IN  IF king_pos # None
        THEN is_square_under_attack(temp_board, king_pos[1], king_pos[2],
                                    ~self.white_to_move)
        ELSE FALSE

(***************************************************************************)
(* Board::is_pawn_move_valid.                                              *)
(***************************************************************************)
\* a faulty variant of is_pawn_move_valid: the two-row advance also needs the square
\* between origin and destination to be empty
is_pawn_move_valid_over_empty(self, piece, from_row, from_col, to_row, to_col) ==
    LET direction == IF is_white(piece) THEN -1 ELSE 1
        start_row == IF is_white(piece) THEN 6 ELSE 1
        row_diff  == to_row - from_row
        col_diff  == Abs(to_col - from_col)
    IN  IF col_diff = 0
        THEN \/ row_diff = direction /\ is_empty(self.squares[to_row][to_col])
             \/ /\ from_row = start_row
                /\ row_diff = 2 * direction
                /\ is_empty(self.squares[from_row + direction][from_col])
                /\ is_empty(self.squares[to_row][to_col])
        ELSE IF col_diff = 1 /\ row_diff = direction
             THEN \/ ~is_empty(self.squares[to_row][to_col])
                  \/ /\ self.game_state.en_passant_target # None
                     /\ self.game_state.en_passant_target = Some(to_row, to_col)
             ELSE FALSE

is_pawn_move_valid(self, piece, from_row, from_col, to_row, to_col) ==
    LET direction == IF is_white(piece) THEN -1 ELSE 1
        start_row == IF is_white(piece) THEN 6 ELSE 1
        row_diff  == to_row - from_row
        col_diff  == Abs(to_col - from_col)
    IN  IF col_diff = 0
        THEN \/ row_diff = direction /\ is_empty(self.squares[to_row][to_col])
             \/ /\ from_row = start_row
                /\ row_diff = 2 * direction
                /\ is_empty(self.squares[to_row][to_col])
        ELSE IF col_diff = 1 /\ row_diff = direction
             THEN \/ ~is_empty(self.squares[to_row][to_col])
                  \/ /\ self.game_state.en_passant_target # None
                     /\ self.game_state.en_passant_target = Some(to_row, to_col)
             ELSE FALSE

(***************************************************************************)
(* Board::can_castle.  CastleBetweenCols is start_col..=end_col (lines     *)
(* 324-331); CastlePathCols is the union of the two attack loops (lines    *)
(* 335-344): 4..=to_col.max(4).min(6) and 4.min(to_col)..=4.               *)
(***************************************************************************)
Min(a, b) == IF a < b THEN a ELSE b

Max(a, b) == IF a > b THEN a ELSE b

\* a faulty variant of CastleBetweenCols: the queenside scan starts at column 2
CastleBetweenCols_from_c_file(is_kingside) ==
    (IF is_kingside THEN 5 ELSE 2) .. (IF is_kingside THEN 6 ELSE 3)

CastleBetweenCols(is_kingside) ==
    (IF is_kingside THEN 5 ELSE 1) .. (IF is_kingside THEN 6 ELSE 3)

\* a faulty variant of CastlePathCols: the queenside scan runs on to column 1
CastlePathCols_to_b_file(to_col) ==
    (4 .. Min(Max(to_col, 4), 6)) \cup ((IF to_col < 4 THEN 1 ELSE 4) .. 4)

CastlePathCols(to_col) ==
    (4 .. Min(Max(to_col, 4), 6)) \cup (Min(4, to_col) .. 4)

rook_moved_flag(self, white, is_kingside) ==
    IF white
    THEN IF is_kingside THEN self.game_state.white_rook_kingside_moved
                        ELSE self.game_state.white_rook_queenside_moved
    ELSE IF is_kingside THEN self.game_state.black_rook_kingside_moved
                        ELSE self.game_state.black_rook_queenside_moved

can_castle(self, from_row, from_col, to_row, to_col) ==
    LET piece        == self.squares[from_row][from_col]
        white        == is_white(piece)
        expected_row == IF white THEN 7 ELSE 0
        is_kingside  == to_col = 6
        rook_col     == IF is_kingside THEN 7 ELSE 0
        expected_rook == IF white THEN "RookWhite" ELSE "RookBlack"
    IN  /\ is_king(piece)
        /\ from_row = expected_row /\ from_col = 4
        /\ ~((white /\ self.game_state.white_king_moved)
             \/ (~white /\ self.game_state.black_king_moved))
        /\ ~rook_moved_flag(self, white, is_kingside)
        /\ self.squares[expected_row][rook_col] = expected_rook
        /\ \A col \in CastleBetweenCols(is_kingside) :
               is_empty(self.squares[expected_row][col])
        /\ \A col \in CastlePathCols(to_col) :
               ~is_square_under_attack(self, expected_row, col, ~white)

is_king_move_valid(self, from_row, from_col, to_row, to_col) ==
    LET row_diff == Abs(to_row - from_row)
        col_diff == Abs(to_col - from_col)
    IN  IF row_diff <= 1 /\ col_diff <= 1
        THEN TRUE
        ELSE IF row_diff = 0 /\ col_diff = 2
             THEN can_castle(self, from_row, from_col, to_row, to_col)
             ELSE FALSE

(***************************************************************************)
(* Board::is_piece_move_valid and Board::is_valid_move.                    *)
(***************************************************************************)
is_piece_move_valid(self, piece, from_row, from_col, to_row, to_col) ==
    CASE is_pawn(piece) ->
            is_pawn_move_valid(self, piece, from_row, from_col, to_row, to_col)
      [] piece \in {"RookWhite", "RookBlack"} ->
            is_rook_move_valid(self, from_row, from_col, to_row, to_col)
      [] piece \in {"KnightWhite", "KnightBlack"} ->
            is_knight_move_valid(self, from_row, from_col, to_row, to_col)
      [] piece \in {"BishopWhite", "BishopBlack"} ->
            is_bishop_move_valid(self, from_row, from_col, to_row, to_col)
      [] piece \in {"QueenWhite", "QueenBlack"} ->
            is_queen_move_valid(self, from_row, from_col, to_row, to_col)
      [] is_king(piece) ->
            is_king_move_valid(self, from_row, from_col, to_row, to_col)
      [] OTHER -> FALSE

is_valid_move(self, from_row, from_col, to_row, to_col) ==
    LET piece  == self.squares[from_row][from_col]
        target == self.squares[to_row][to_col]
    IN  /\ ~is_empty(piece)
        /\ ~((self.white_to_move /\ is_black(piece))
             \/ (~self.white_to_move /\ is_white(piece)))
        /\ ~is_same_color(piece, target)
        /\ is_piece_move_valid(self, piece, from_row, from_col, to_row, to_col)
        /\ ~would_be_in_check_after_move(self, from_row, from_col, to_row, to_col)

(***************************************************************************)
(* Board::is_checkmate and Board::is_stalemate: the check test, then the   *)
(* scan of the pieces of the side to move over every destination.          *)
(***************************************************************************)
\* the scan of both functions: true when it ends without a valid move
no_valid_move_found(self) ==
    \A from_row \in Coord, from_col \in Coord :
        LET piece == self.squares[from_row][from_col]
        IN  IF is_empty(piece)
            THEN TRUE
            ELSE IF \/ (self.white_to_move /\ is_white(piece))
                    \/ (~self.white_to_move /\ is_black(piece))
                 THEN \A to_row \in Coord, to_col \in Coord :
                          ~is_valid_move(self, from_row, from_col, to_row, to_col)
                 ELSE TRUE

\* a faulty variant of is_checkmate: the scan is left out
is_checkmate_without_scan(self) ==
    is_in_check(self, self.white_to_move)

is_checkmate(self) ==
    IF ~is_in_check(self, self.white_to_move)
    THEN FALSE
    ELSE no_valid_move_found(self)

\* a faulty variant of is_stalemate: the check test is left out
is_stalemate_without_check_test(self) ==
    no_valid_move_found(self)

is_stalemate(self) ==
    IF is_in_check(self, self.white_to_move)
    THEN FALSE
    ELSE no_valid_move_found(self)

(***************************************************************************)
(* Board::update_game_state_after_move.                                    *)
(***************************************************************************)
\* a faulty variant of update_game_state_after_move: a rook's flags are assigned from the
\* square it leaves instead of being set
update_game_state_assigned(gs, piece, from_row, from_col) ==
    CASE piece = "KingWhite" -> [gs EXCEPT !.white_king_moved = TRUE]
      [] piece = "KingBlack" -> [gs EXCEPT !.black_king_moved = TRUE]
      [] piece = "RookWhite" ->
            [gs EXCEPT !.white_rook_queenside_moved = (from_row = 7 /\ from_col = 0),
                       !.white_rook_kingside_moved  = (from_row = 7 /\ from_col = 7)]
      [] piece = "RookBlack" ->
            [gs EXCEPT !.black_rook_queenside_moved = (from_row = 0 /\ from_col = 0),
                       !.black_rook_kingside_moved  = (from_row = 0 /\ from_col = 7)]
      [] OTHER -> gs

\* a faulty variant of update_game_state_after_move: a rook leaving column 0 or 7 on
\* any row sets the flag of that side
update_game_state_by_column(gs, piece, from_row, from_col) ==
    CASE piece = "KingWhite" -> [gs EXCEPT !.white_king_moved = TRUE]
      [] piece = "KingBlack" -> [gs EXCEPT !.black_king_moved = TRUE]
      [] piece = "RookWhite" ->
            IF from_col = 0
            THEN [gs EXCEPT !.white_rook_queenside_moved = TRUE]
            ELSE IF from_col = 7
                 THEN [gs EXCEPT !.white_rook_kingside_moved = TRUE]
                 ELSE gs
      [] piece = "RookBlack" ->
            IF from_col = 0
            THEN [gs EXCEPT !.black_rook_queenside_moved = TRUE]
            ELSE IF from_col = 7
                 THEN [gs EXCEPT !.black_rook_kingside_moved = TRUE]
                 ELSE gs
      [] OTHER -> gs

update_game_state_after_move(gs, piece, from_row, from_col) ==
    CASE piece = "KingWhite" -> [gs EXCEPT !.white_king_moved = TRUE]
      [] piece = "KingBlack" -> [gs EXCEPT !.black_king_moved = TRUE]
      [] piece = "RookWhite" ->
            IF from_row = 7 /\ from_col = 0
            THEN [gs EXCEPT !.white_rook_queenside_moved = TRUE]
            ELSE IF from_row = 7 /\ from_col = 7
                 THEN [gs EXCEPT !.white_rook_kingside_moved = TRUE]
                 ELSE gs
      [] piece = "RookBlack" ->
            IF from_row = 0 /\ from_col = 0
            THEN [gs EXCEPT !.black_rook_queenside_moved = TRUE]
            ELSE IF from_row = 0 /\ from_col = 7
                 THEN [gs EXCEPT !.black_rook_kingside_moved = TRUE]
                 ELSE gs
      [] OTHER -> gs

(***************************************************************************)
(* The steps of Board::make_move after validation, in the source's order.  *)
(***************************************************************************)
\* a faulty variant of en_passant_capture: the destination square is cleared, not the
\* square behind it
en_passant_capture_on_destination(sq, gs, piece, to_row, to_col) ==
    IF /\ is_pawn(piece)
       /\ gs.en_passant_target # None
       /\ gs.en_passant_target = Some(to_row, to_col)
    THEN [sq EXCEPT ![to_row][to_col] = Empty]
    ELSE sq

\* lines 480-487: the pawn captured en passant leaves the board
en_passant_capture(sq, gs, piece, to_row, to_col) ==
    IF /\ is_pawn(piece)
       /\ gs.en_passant_target # None
       /\ gs.en_passant_target = Some(to_row, to_col)
    THEN LET ep_row == gs.en_passant_target[1]
             ep_col == gs.en_passant_target[2]
             captured_pawn_row == IF is_white(piece) THEN ep_row + 1 ELSE ep_row - 1
         IN  [sq EXCEPT ![captured_pawn_row][ep_col] = Empty]
    ELSE sq

\* a faulty variant of next_en_passant_target: the target row is counted from the
\* destination
next_en_passant_target_from_destination(piece, from_row, from_col, to_row) ==
    IF is_pawn(piece)
    THEN IF Abs(to_row - from_row) = 2
         THEN Some(IF is_white(piece) THEN to_row - 1 ELSE to_row + 1, from_col)
         ELSE None
    ELSE None

\* a faulty variant of next_en_passant_target: every pawn move sets a target
next_en_passant_target_of_any_advance(piece, from_row, from_col, to_row) ==
    IF is_pawn(piece)
    THEN Some(IF is_white(piece) THEN from_row - 1 ELSE from_row + 1, from_col)
    ELSE None

\* lines 489-500: the en passant target for the next turn
next_en_passant_target(piece, from_row, from_col, to_row) ==
    IF is_pawn(piece)
    THEN IF Abs(to_row - from_row) = 2
         THEN Some(IF is_white(piece) THEN from_row - 1 ELSE from_row + 1, from_col)
         ELSE None
    ELSE None

\* a faulty variant of castle_rook: the rook of column 7 is moved on either side
castle_rook_of_h_file(sq, piece, from_row, from_col, to_col) ==
    IF is_king(piece) /\ Abs(to_col - from_col) = 2
    THEN [sq EXCEPT ![from_row][5] = sq[from_row][7], ![from_row][7] = Empty]
    ELSE sq

\* lines 503-516: castling moves the rook as well
castle_rook(sq, piece, from_row, from_col, to_col) ==
    IF is_king(piece) /\ Abs(to_col - from_col) = 2
    THEN LET is_kingside   == to_col = 6
             rook_from_col == IF is_kingside THEN 7 ELSE 0
             rook_to_col   == IF is_kingside THEN 5 ELSE 3
             rook_piece    == sq[from_row][rook_from_col]
         IN  [sq EXCEPT ![from_row][rook_to_col] = rook_piece,
                        ![from_row][rook_from_col] = Empty]
    ELSE sq

\* a faulty variant of promote: only a white pawn is promoted
promote_white_only(sq, piece, to_row, to_col) ==
    IF is_pawn(piece) /\ is_white(piece) /\ to_row = 0
    THEN [sq EXCEPT ![to_row][to_col] = "QueenWhite"]
    ELSE sq

\* lines 526-531: automatic promotion to a queen
promote(sq, piece, to_row, to_col) ==
    IF /\ is_pawn(piece)
       /\ (is_white(piece) /\ to_row = 0) \/ (is_black(piece) /\ to_row = 7)
    THEN [sq EXCEPT ![to_row][to_col] =
                 IF is_white(piece) THEN "QueenWhite" ELSE "QueenBlack"]
    ELSE sq

\* lines 522-523: the main move
execute_main_move(sq, piece, from_row, from_col, to_row, to_col) ==
    [sq EXCEPT ![to_row][to_col] = piece, ![from_row][from_col] = Empty]

\* a faulty variant of switch_turns: the turn always passes to black
switch_turns_to_black(white_to_move) == FALSE

\* line 534: switch turns
switch_turns(white_to_move) == ~white_to_move

\* lines 477-535: the board after a validated move
make_move_applied(self, from_row, from_col, to_row, to_col) ==
    LET piece == self.squares[from_row][from_col]
        sq1   == en_passant_capture(self.squares, self.game_state, piece, to_row, to_col)
        ep    == next_en_passant_target(piece, from_row, from_col, to_row)
        sq2   == castle_rook(sq1, piece, from_row, from_col, to_col)
        gs    == update_game_state_after_move(
                     [self.game_state EXCEPT !.en_passant_target = ep],
                     piece, from_row, from_col)
        sq3   == execute_main_move(sq2, piece, from_row, from_col, to_row, to_col)
        sq4   == promote(sq3, piece, to_row, to_col)
    IN  [ squares       |-> sq4,
          white_to_move |-> switch_turns(self.white_to_move),
          game_state    |-> gs ]

\* a faulty variant of make_move_rejected: the en passant target is cleared before the
\* move is validated
make_move_rejected_target_cleared(self) ==
    [self EXCEPT !.game_state.en_passant_target = None]

\* lines 473-475: a move that fails validation returns false, the board untouched
make_move_rejected(self) == self

(***************************************************************************)
(* The state machine.  board is the Board value; ret is what the last      *)
(* make_move call returned (FALSE before the first call) and last the move *)
(* it applied: the piece moved, its origin and destination and target, the *)
(* occupant of the destination before the move (NoMove after a rejected    *)
(* call and before the first call).  rook_home is a history variable: the  *)
(* corners whose rook has stood there in every state since Board::new().   *)
(*                                                                         *)
(* The caller's inputs: one of the openings of Games, played move by move  *)
(* through make_move from Board::new(), then up to MaxFree accepted moves  *)
(* of any origin and destination.  A call that make_move rejects may come  *)
(* at any time, with any origin and destination.  A move is                *)
(* <<from_row, from_col, to_row, to_col>>.                                 *)
(*                                                                         *)
(* selected and game_over are the fields of ChessApp the click handler     *)
(* reads and writes; status_message and square_rects are written for       *)
(* display and never read by it.  Under Spec and SpecGames the board is    *)
(* driven by make_move calls and the two fields keep their default; under  *)
(* SpecApp it is driven by clicks.                                         *)
(***************************************************************************)
MaxFree == 1

\* no opening: free play from Board::new()
GameStart == <<>>

\* e4 a5 e5 Ra6 Ke2 Rb6 Kf3 Rb5 Kg4 Na6 Kh5 d5 exd6 (en passant): the white
\* king on h5 and the black rook on b5 share row 3 with the two pawns
GameEnPassantPin ==
    << <<6,4,4,4>>, <<1,0,3,0>>, <<4,4,3,4>>, <<0,0,2,0>>, <<7,4,6,4>>, <<2,0,2,1>>,
       <<6,4,5,5>>, <<2,1,3,1>>, <<5,5,4,6>>, <<0,1,2,0>>, <<4,6,3,7>>, <<1,3,3,3>>,
       <<3,4,2,3>> >>

\* a4 e5 Ra3 Qh4 e4 Qxh2 Bc4 Qxh1 Rh3 a6 Rxh1 a5 Ne2 h6 O-O: the rook of h1 is
\* captured at home and the rook of a1 takes its place
GameRookSwap ==
    << <<6,0,4,0>>, <<1,4,3,4>>, <<7,0,5,0>>, <<0,3,4,7>>, <<6,4,4,4>>, <<4,7,6,7>>,
       <<7,5,4,2>>, <<6,7,7,7>>, <<5,0,5,7>>, <<1,0,2,0>>, <<5,7,7,7>>, <<2,0,3,0>>,
       <<7,6,6,4>>, <<1,7,2,7>>, <<7,4,7,6>> >>

\* d4 d6 Bf4 Bf5 Qd2 Nf6 c4 e6 Nc3 Be7: white may castle queenside while the
\* bishop of f5 attacks b1
GameQueenside ==
    << <<6,3,4,3>>, <<1,3,2,3>>, <<7,2,4,5>>, <<0,2,3,5>>, <<7,3,6,3>>, <<0,6,2,5>>,
       <<6,2,4,2>>, <<1,4,2,4>>, <<7,1,5,2>>, <<0,5,1,4>> >>

\* e4 Nf6 d4 Ng4 Nf3 e6 Nc3 d6 Bd3 Be7 Bg5 a6 Qe2: white may castle on both
\* sides and black, to move, can attack the king's path
GameBothSides ==
    << <<6,4,4,4>>, <<0,6,2,5>>, <<6,3,4,3>>, <<2,5,4,6>>, <<7,6,5,5>>, <<1,4,2,4>>,
       <<7,1,5,2>>, <<1,3,2,3>>, <<7,5,5,3>>, <<0,5,1,4>>, <<7,2,3,6>>, <<1,0,2,0>>,
       <<7,3,6,4>> >>

\* h3 d5 h4 d4 e4 dxe3 (en passant): a black pawn captures en passant
GameBlackEnPassant ==
    << <<6,7,5,7>>, <<1,3,3,3>>, <<5,7,4,7>>, <<3,3,4,3>>, <<6,4,4,4>>, <<4,3,5,4>> >>

\* h4 a5 h5 a4 h6 a3 hxg7 axb2 Nc3 Nf6: the white pawn of g7 may advance to g8
\* or capture on f8 or h8
GamePromotion ==
    << <<6,7,4,7>>, <<1,0,3,0>>, <<4,7,3,7>>, <<3,0,4,0>>, <<3,7,2,7>>, <<4,0,5,0>>,
       <<2,7,1,6>>, <<5,0,6,1>>, <<7,1,5,2>>, <<0,6,2,5>> >>

\* the same and a3: the black pawn of b2 may advance to b1 or capture on a1 or c1
GamePromotionBlack ==
    << <<6,7,4,7>>, <<1,0,3,0>>, <<4,7,3,7>>, <<3,0,4,0>>, <<3,7,2,7>>, <<4,0,5,0>>,
       <<2,7,1,6>>, <<5,0,6,1>>, <<7,1,5,2>>, <<0,6,2,5>>, <<6,0,5,0>> >>

\* f3 e5 g4 Qh4: the fool's mate
GameFoolsMate ==
    << <<6,5,5,5>>, <<1,4,3,4>>, <<6,6,4,6>>, <<0,3,4,7>> >>

\* e4 a5 Qh5 Ra6 Qxa5 h5 h4 Rg6 e5 Rf6 g4 Rg6 g5 Rh6 Qxc7 f6 Qxd7 Kf7 Qxb7 Qd3
\* Qxb8 Qh7 Qxc8 Kg6 Qe6: black, to move and not in check, has no valid move
GameStalemate ==
    << <<6,4,4,4>>, <<1,0,3,0>>, <<7,3,3,7>>, <<0,0,2,0>>, <<3,7,3,0>>, <<1,7,3,7>>,
       <<6,7,4,7>>, <<2,0,2,6>>, <<4,4,3,4>>, <<2,6,2,5>>, <<6,6,4,6>>, <<2,5,2,6>>,
       <<4,6,3,6>>, <<2,6,2,7>>, <<3,0,1,2>>, <<1,5,2,5>>, <<1,2,1,3>>, <<0,4,1,5>>,
       <<1,3,1,1>>, <<0,3,5,3>>, <<1,1,0,1>>, <<5,3,1,7>>, <<0,1,0,2>>, <<1,5,2,6>>,
       <<0,2,2,4>> >>

\* d3 d5 Be3 d4 e4 dxe3: the white pawn of e2 advances two rows over the
\* bishop of e3, and the black pawn captures on the en passant target
GamePawnJump ==
    << <<6,3,5,3>>, <<1,3,3,3>>, <<7,2,5,4>>, <<3,3,4,3>>, <<6,4,4,4>>, <<4,3,5,4>> >>

\* e4 a6 e5 a5 d4 a4 f4 a3 Bd3 h6 Nf3 h5 Ke2 h4 Ke3 b6 Ke4 h3 Be3 d5: the pawn
\* of d5 checks the white king of e4, whose neighbours are taken or attacked;
\* the pawn of e5 may capture it en passant on d6
GameEnPassantEscape ==
    << <<6,4,4,4>>, <<1,0,2,0>>, <<4,4,3,4>>, <<2,0,3,0>>, <<6,3,4,3>>, <<3,0,4,0>>,
       <<6,5,4,5>>, <<4,0,5,0>>, <<7,5,5,3>>, <<1,7,2,7>>, <<7,6,5,5>>, <<2,7,3,7>>,
       <<7,4,6,4>>, <<3,7,4,7>>, <<6,4,5,4>>, <<1,1,2,1>>, <<5,4,4,4>>, <<4,7,5,7>>,
       <<7,2,5,4>>, <<1,3,3,3>> >>

Games ==
    <<GameStart, GameEnPassantPin, GameRookSwap, GameQueenside, GameBothSides,
      GameBlackEnPassant, GamePromotion, GamePromotionBlack, GameFoolsMate,
      GameStalemate, GamePawnJump, GameEnPassantEscape>>

VARIABLES board, selected, game_over, ret, last, rook_home, game, step, free

vars == <<board, selected, game_over, ret, last, rook_home, game, step, free>>

NoMove == [piece |-> Empty, from |-> None, to |-> None, target |-> Empty]

Corners == {<<0, 0>>, <<0, 7>>, <<7, 0>>, <<7, 7>>}

\* lines 659-670: ChessApp::default(), before any call and any click
Init ==
    /\ board = BoardNew
    /\ selected = None
    /\ game_over = FALSE
    /\ ret = FALSE
    /\ last = NoMove
    /\ rook_home = Corners
    /\ game \in 1..Len(Games)
    /\ step = 0
    /\ free = 0

\* lines 471-536: make_move(from, to) called and accepted
make_move_accepted(from_row, from_col, to_row, to_col) ==
    /\ is_valid_move(board, from_row, from_col, to_row, to_col)
    /\ board' = make_move_applied(board, from_row, from_col, to_row, to_col)
    /\ ret' = TRUE
    /\ last' = [piece  |-> board.squares[from_row][from_col],
                from   |-> <<from_row, from_col>>,
                to     |-> <<to_row, to_col>>,
                target |-> board.squares[to_row][to_col]]
    /\ rook_home' = {k \in rook_home :
                        board'.squares[k[1]][k[2]] = board.squares[k[1]][k[2]]}

\* make_move called with an origin and destination that is_valid_move refuses:
\* what it leaves behind does not depend on which pair it was
RejectedMove ==
    /\ ~(\A from_row \in Coord, from_col \in Coord, to_row \in Coord, to_col \in Coord :
            is_valid_move(board, from_row, from_col, to_row, to_col))
    /\ board' = make_move_rejected(board)
    /\ ret' = FALSE
    /\ last' = NoMove
    /\ UNCHANGED <<selected, game_over, rook_home, game, step, free>>

\* make_move called with the next move of the opening
OpeningMove ==
    /\ step < Len(Games[game])
    /\ LET m == Games[game][step + 1]
       IN  make_move_accepted(m[1], m[2], m[3], m[4])
    /\ step' = step + 1
    /\ UNCHANGED <<selected, game_over, game, free>>

\* make_move called with any origin and destination, once the opening is played
FreeMove ==
    /\ step = Len(Games[game])
    /\ free < MaxFree
    /\ \E from_row \in Coord, from_col \in Coord, to_row \in Coord, to_col \in Coord :
           make_move_accepted(from_row, from_col, to_row, to_col)
    /\ free' = free + 1
    /\ UNCHANGED <<selected, game_over, game, step>>

Next == RejectedMove \/ OpeningMove \/ FreeMove

Spec == Init /\ [][Next]_vars

\* the openings alone: make_move called with the scripted moves and with
\* rejected ones, for the properties of the functions of one board
NextGames == RejectedMove \/ OpeningMove

SpecGames == Init /\ [][NextGames]_vars

(***************************************************************************)
(* ChessApp: the clicks.  The user's inputs: the clicks that play one of   *)
(* the openings of Games, origin then destination of each move, then up to *)
(* MaxClicks clicks on any square; the New Game button at any time.        *)
(***************************************************************************)
MaxClicks == 2

\* lines 797-799 and 812-814: the square holds a piece of the side to move
is_piece_of_current_player(self, row, col) ==
    LET piece == self.squares[row][col]
    IN  /\ ~is_empty(piece)
        /\ \/ (self.white_to_move /\ is_white(piece))
           \/ (~self.white_to_move /\ is_black(piece))

\* a faulty variant of selected_after_invalid_move: the clicked square is selected
\* whatever it holds
selected_after_invalid_move_any_square(self, sel, row, col) ==
    Some(row, col)

\* lines 795-807: the selection after make_move returned false
selected_after_invalid_move(self, sel, row, col) ==
    IF is_piece_of_current_player(self, row, col)
    THEN Some(row, col)
    ELSE sel

\* lines 810-822: the selection after a click with nothing selected
selected_first_click(self, row, col) ==
    IF is_piece_of_current_player(self, row, col)
    THEN Some(row, col)
    ELSE None

\* a faulty variant of game_over_after_move: stalemate does not end the game
game_over_after_move_checkmate_only(self, over) ==
    IF is_checkmate(self) THEN TRUE ELSE over

\* lines 784-793: game_over after make_move returned true
game_over_after_move(self, over) ==
    IF is_checkmate(self)
    THEN TRUE
    ELSE IF is_stalemate(self)
         THEN TRUE
         ELSE over

\* lines 771-825: ChessApp::handle_square_click(row, col)
handle_square_click(row, col) ==
    IF selected # None
    THEN IF selected = Some(row, col)
         THEN /\ selected' = None
              /\ UNCHANGED <<board, game_over, ret, last, rook_home>>
         ELSE IF is_valid_move(board, selected[1], selected[2], row, col)
              THEN /\ make_move_accepted(selected[1], selected[2], row, col)
                   /\ selected' = None
                   /\ game_over' = game_over_after_move(board', game_over)
              ELSE /\ board' = make_move_rejected(board)
                   /\ ret' = FALSE
                   /\ last' = NoMove
                   /\ selected' = selected_after_invalid_move(board', selected, row, col)
                   /\ UNCHANGED <<game_over, rook_home>>
    ELSE /\ selected' = selected_first_click(board, row, col)
         /\ UNCHANGED <<board, game_over, ret, last, rook_home>>

\* lines 743-748: a click on the button of a square, handled unless the game is over
square_clicked(row, col) ==
    IF ~game_over
    THEN handle_square_click(row, col)
    ELSE UNCHANGED <<board, selected, game_over, ret, last, rook_home>>

\* the next click of the opening: the origin of its next move when nothing is
\* selected, the destination otherwise
ClickOpening ==
    /\ step < Len(Games[game])
    /\ LET m == Games[game][step + 1]
       IN  IF selected = None
           THEN square_clicked(m[1], m[2]) /\ step' = step
           ELSE square_clicked(m[3], m[4]) /\ step' = step + 1
    /\ UNCHANGED <<game, free>>

\* a click on any square, once the opening is played
ClickFree ==
    /\ step = Len(Games[game])
    /\ free < MaxClicks
    /\ \E row \in Coord, col \in Coord : square_clicked(row, col)
    /\ free' = free + 1
    /\ UNCHANGED <<game, step>>

\* lines 755-758: the New Game button resets to ChessApp::default(); the user
\* then plays any of the openings
NewGame ==
    /\ board' = BoardNew
    /\ selected' = None
    /\ game_over' = FALSE
    /\ ret' = FALSE
    /\ last' = NoMove
    /\ rook_home' = Corners
    /\ game' \in 1..Len(Games)
    /\ step' = 0
    /\ free' = 0

NextApp == ClickOpening \/ ClickFree \/ NewGame

SpecApp == Init /\ [][NextApp]_vars


(***************************************************************************)
(* Properties.                                                             *)
(***************************************************************************)
Flags ==
    {"white_king_moved", "black_king_moved",
     "white_rook_queenside_moved", "white_rook_kingside_moved",
     "black_rook_queenside_moved", "black_rook_kingside_moved"}

Kings(white) ==
    {k \in Coord \X Coord :
        board.squares[k[1]][k[2]] = IF white THEN "KingWhite" ELSE "KingBlack"}

\* the last call was accepted and moved a king two columns along its row
LastWasCastling ==
    /\ ret
    /\ is_king(last.piece)
    /\ Abs(last.to[2] - last.from[2]) = 2

\* the last call was accepted and moved a pawn diagonally onto an empty square
LastWasEnPassant ==
    /\ ret
    /\ is_pawn(last.piece)
    /\ last.to[2] # last.from[2]
    /\ last.target = Empty

\* C1: whenever make_move returns false, the squares, white_to_move, the six
\* castling-rights flags and en_passant_target are what they were before the call.
C1_RejectedMoveChangesNothing ==
    [][ret' = FALSE => board' = board]_vars

\* a call is rejected with an en passant target and castling flags to lose
C1_Witness ==
    /\ ret = FALSE
    /\ board.game_state.en_passant_target # None
    /\ board.game_state.white_king_moved

\* C2: after every successful make_move the king of the side that just moved is
\* not attacked by the opposing colour.
C2_MoverKingNotAttacked ==
    ret => ~is_in_check(board, ~board.white_to_move)

\* C3: in every reachable state the board holds exactly one white king and
\* exactly one black king.
C3_OneKingEach ==
    Cardinality(Kings(TRUE)) = 1 /\ Cardinality(Kings(FALSE)) = 1

\* C4: white moves first; white_to_move flips on every make_move that returns
\* true, by a piece of the side that was to move, and is unchanged by every
\* make_move that returns false: white is to move exactly after an even number
\* of successful moves.
C4_TurnAlternates ==
    /\ [](board.white_to_move <=> (step + free) % 2 = 0)
    /\ [][/\ ret' = TRUE =>
               /\ board'.white_to_move # board.white_to_move
               /\ is_white(last'.piece) <=> board.white_to_move
          /\ ret' = FALSE => board'.white_to_move = board.white_to_move]_vars

\* a rejected call after at least three accepted moves
C4_Witness ==
    ret = FALSE /\ step + free >= 3 /\ ~board.white_to_move

\* C5: after a successful make_move, en_passant_target is Some(s) iff the move was
\* a pawn advancing two rows, and then s is the square between origin and
\* destination on the same column; after every other successful move it is None.
C5_EnPassantTarget ==
    ret =>
        LET two_rows == is_pawn(last.piece) /\ Abs(last.to[1] - last.from[1]) = 2
        IN  IF two_rows
            THEN /\ last.to[2] = last.from[2]
                 /\ board.game_state.en_passant_target =
                        Some((last.from[1] + last.to[1]) \div 2, last.from[2])
            ELSE board.game_state.en_passant_target = None

\* a black pawn has just advanced two rows
C5_Witness ==
    /\ ret
    /\ last.piece = "PawnBlack"
    /\ board.game_state.en_passant_target # None

\* C6: each of the six castling-rights flags is monotone: once true, it is true in
\* every later state.
C6_FlagsMonotone ==
    [][\A f \in Flags : board.game_state[f] => board'.game_state[f]]_vars

\* a rook has moved again after leaving its corner, its flag still set
C6_Witness ==
    /\ ret
    /\ last.piece = "RookWhite"
    /\ last.from \notin Corners
    /\ board.game_state.white_rook_queenside_moved

\* C7: whenever is_valid_move accepts a king move of zero rows and two columns,
\* the king stands on its original square, its king-moved flag is false, the
\* rook-moved flag of the corner it moves toward is false, a rook of its colour
\* stands on that corner, every square strictly between king and rook is empty,
\* and the king is not in check.
C7_CastlingPreconditions ==
    \A from_row \in Coord, from_col \in Coord, to_col \in Coord :
        LET piece    == board.squares[from_row][from_col]
            white    == is_white(piece)
            kingside == to_col > from_col
            corner   == IF kingside THEN 7 ELSE 0
        IN  (/\ is_king(piece)
             /\ Abs(to_col - from_col) = 2
             /\ is_valid_move(board, from_row, from_col, from_row, to_col))
            =>
            /\ from_row = (IF white THEN 7 ELSE 0)
            /\ from_col = 4
            /\ ~board.game_state[IF white THEN "white_king_moved" ELSE "black_king_moved"]
            /\ ~board.game_state[
                    IF white
                    THEN IF kingside THEN "white_rook_kingside_moved"
                                     ELSE "white_rook_queenside_moved"
                    ELSE IF kingside THEN "black_rook_kingside_moved"
                                     ELSE "black_rook_queenside_moved"]
            /\ board.squares[from_row][corner] = (IF white THEN "RookWhite" ELSE "RookBlack")
            /\ \A c \in Coord :
                   (Min(from_col, corner) < c /\ c < Max(from_col, corner))
                       => board.squares[from_row][c] = Empty
            /\ ~is_in_check(board, white)

\* castling is accepted, on the queenside for white and on the kingside for black
C7_Witness ==
    \/ is_valid_move(board, 7, 4, 7, 2)
    \/ is_valid_move(board, 0, 4, 0, 6)

\* C8: whenever a castling move is accepted, the rook that make_move relocates
\* has stood on its corner in every state since Board::new().
C8_CastlingRookNeverMoved ==
    [][(/\ ret'
        /\ is_king(last'.piece)
        /\ Abs(last'.to[2] - last'.from[2]) = 2)
       => <<last'.from[1], IF last'.to[2] = 6 THEN 7 ELSE 0>> \in rook_home]_vars

\* the castling preconditions of the side to move other than the safety of the
\* king's path: king at home, neither it nor the rook flagged, the rook on its
\* corner, the squares between them empty
CastlingSetUp(kingside) ==
    LET white  == board.white_to_move
        home   == IF white THEN 7 ELSE 0
        corner == IF kingside THEN 7 ELSE 0
    IN  /\ board.squares[home][4] = (IF white THEN "KingWhite" ELSE "KingBlack")
        /\ ~board.game_state[IF white THEN "white_king_moved" ELSE "black_king_moved"]
        /\ ~rook_moved_flag(board, white, kingside)
        /\ board.squares[home][corner] = (IF white THEN "RookWhite" ELSE "RookBlack")
        /\ \A c \in (IF kingside THEN {5, 6} ELSE {1, 2, 3}) :
               board.squares[home][c] = Empty

\* C9: for a castling attempt whose other preconditions hold, castling is accepted
\* iff no square of columns {4, 5, 6} (kingside) or {2, 3, 4} (queenside) of the
\* back rank is attacked by the opposing colour on the pre-move board.
C9_CastlingPathSquares ==
    \A kingside \in BOOLEAN :
        LET white == board.white_to_move
            home  == IF white THEN 7 ELSE 0
            path  == IF kingside THEN {4, 5, 6} ELSE {2, 3, 4}
        IN  CastlingSetUp(kingside) =>
                (is_valid_move(board, home, 4, home, IF kingside THEN 6 ELSE 2)
                 <=> \A c \in path : ~is_square_under_attack(board, home, c, ~white))

\* queenside castling is accepted although the column-1 square is attacked
C9_Witness ==
    /\ board.white_to_move
    /\ is_valid_move(board, 7, 4, 7, 2)
    /\ is_square_under_attack(board, 7, 1, FALSE)

\* C10: when make_move succeeds with a pawn moving diagonally onto the current
\* en_passant_target, afterwards the capturing pawn stands on the target square,
\* its origin is empty, and the square one row behind the target on the target's
\* column (row+1 for a white capturer, row-1 for a black one) is empty.
C10_EnPassantCapture ==
    [][(/\ ret'
        /\ is_pawn(last'.piece)
        /\ last'.to[2] # last'.from[2]
        /\ board.game_state.en_passant_target = last'.to)
       =>
       LET behind == IF is_white(last'.piece) THEN last'.to[1] + 1 ELSE last'.to[1] - 1
       IN  /\ board'.squares[last'.to[1]][last'.to[2]] = last'.piece
           /\ board'.squares[last'.from[1]][last'.from[2]] = Empty
           /\ board'.squares[behind][last'.to[2]] = Empty]_vars

\* a pawn has just captured en passant
C10_Witness ==
    LastWasEnPassant

\* C11: whenever make_move succeeds with a white pawn arriving on row 0 or a black
\* pawn arriving on row 7, by a straight advance or by a capture, the destination
\* holds a queen of the mover's colour afterwards; no pawn of either colour ever
\* stands on row 0 or row 7.
C11_PromotionToQueen ==
    /\ (ret /\ last.piece = "PawnWhite" /\ last.to[1] = 0)
           => board.squares[last.to[1]][last.to[2]] = "QueenWhite"
    /\ (ret /\ last.piece = "PawnBlack" /\ last.to[1] = 7)
           => board.squares[last.to[1]][last.to[2]] = "QueenBlack"
    /\ \A row \in {0, 7}, col \in Coord : ~is_pawn(board.squares[row][col])

\* a black pawn has just arrived on row 7 by a capture
C11_Witness ==
    /\ ret
    /\ last.piece = "PawnBlack"
    /\ last.to[1] = 7
    /\ last.to[2] # last.from[2]
    /\ last.target # Empty

\* C12: after a successful castling move the king stands on column 6 (kingside) or
\* column 2 (queenside) of its back rank, a rook of its colour stands on column 5
\* or 3 respectively, the king's origin (column 4) and the rook's corner (column 7
\* or 0) are empty, that colour's king-moved flag is true and the turn has passed
\* to the opponent.
C12_CastlingResult ==
    LastWasCastling =>
        LET white    == is_white(last.piece)
            row      == IF white THEN 7 ELSE 0
            kingside == last.to[2] = 6
            sq       == board.squares
        IN  /\ last.from = <<row, 4>>
            /\ last.to = <<row, IF kingside THEN 6 ELSE 2>>
            /\ sq[row][last.to[2]] = IF white THEN "KingWhite" ELSE "KingBlack"
            /\ sq[row][IF kingside THEN 5 ELSE 3] =
                   IF white THEN "RookWhite" ELSE "RookBlack"
            /\ sq[row][4] = Empty
            /\ sq[row][IF kingside THEN 7 ELSE 0] = Empty
            /\ IF white THEN board.game_state.white_king_moved
                        ELSE board.game_state.black_king_moved
            /\ board.white_to_move = ~white

\* a king has just castled queenside
C12_Witness ==
    /\ LastWasCastling
    /\ last.to[2] = 2

\* is_valid_move is false for every pair of squares of the 64 x 64
NoValidPair ==
    \A from_row \in Coord, from_col \in Coord, to_row \in Coord, to_col \in Coord :
        ~is_valid_move(board, from_row, from_col, to_row, to_col)

\* C13: is_checkmate() is true exactly when the side to move is in check and
\* is_valid_move is false for every pair of squares; is_stalemate() is true exactly
\* when the side to move is not in check and is_valid_move is false for every pair
\* of squares; the two are never true in the same state.
C13_CheckmateStalemate ==
    LET in_check == is_in_check(board, board.white_to_move)
    IN  /\ is_checkmate(board) <=> (in_check /\ NoValidPair)
        /\ is_stalemate(board) <=> (~in_check /\ NoValidPair)
        /\ ~(is_checkmate(board) /\ is_stalemate(board))

\* the side to move is stalemated
C13_Witness ==
    /\ is_stalemate(board)
    /\ ~is_checkmate(board)
    /\ ~is_in_check(board, board.white_to_move)

\* C14: from Board::new(), make_move (6,5)->(5,5), (1,4)->(3,4), (6,6)->(4,6),
\* (0,3)->(4,7) (f2-f3, e7-e5, g2-g4, Qd8-h4) each return true in that order, and
\* in the resulting state white is to move, is_in_check(white) is true,
\* is_checkmate() is true, is_stalemate() is false and is_valid_move is false for
\* every pair of squares.
C14_FoolsMate ==
    Games[game] = GameFoolsMate =>
        /\ step < Len(GameFoolsMate) =>
               LET m == GameFoolsMate[step + 1]
               IN  is_valid_move(board, m[1], m[2], m[3], m[4])
        /\ (step = Len(GameFoolsMate) /\ free = 0) =>
               /\ board.white_to_move
               /\ is_in_check(board, TRUE)
               /\ is_checkmate(board)
               /\ ~is_stalemate(board)
               /\ NoValidPair

\* the fourth call has just returned true
C14_Witness ==
    /\ Games[game] = GameFoolsMate
    /\ step = Len(GameFoolsMate)
    /\ ret
    /\ last.piece = "QueenBlack"
    /\ last.to = <<4, 7>>

\* C15: is_valid_move returns false, and make_move returns false, whenever the
\* origin is empty, or holds a piece of the side not to move, or the destination
\* holds a piece of the mover's colour; in particular a move whose origin equals
\* its destination is rejected for every piece in every state.
C15_RejectedOrigins ==
    /\ [](\A from_row \in Coord, from_col \in Coord, to_row \in Coord, to_col \in Coord :
            LET piece  == board.squares[from_row][from_col]
                target == board.squares[to_row][to_col]
            IN  (\/ piece = Empty
                 \/ piece \in (IF board.white_to_move THEN BlackPieces ELSE WhitePieces)
                 \/ (piece \in WhitePieces /\ target \in WhitePieces)
                 \/ (piece \in BlackPieces /\ target \in BlackPieces)
                 \/ <<from_row, from_col>> = <<to_row, to_col>>)
                => ~is_valid_move(board, from_row, from_col, to_row, to_col))
    /\ [][ret' =>
            /\ last'.piece \in (IF board.white_to_move THEN WhitePieces ELSE BlackPieces)
            /\ last'.piece = board.squares[last'.from[1]][last'.from[2]]
            /\ last'.target = board.squares[last'.to[1]][last'.to[2]]
            /\ ~(last'.piece \in WhitePieces /\ last'.target \in WhitePieces)
            /\ ~(last'.piece \in BlackPieces /\ last'.target \in BlackPieces)
            /\ last'.from # last'.to]_vars

\* make_move has just returned false to black while black pieces stand on the
\* board next to each other
C15_Witness ==
    /\ ~ret
    /\ step > 0
    /\ ~board.white_to_move
    /\ board.squares[0][0] = "RookBlack"
    /\ board.squares[0][1] = "KnightBlack"

\* the columns or rows strictly between two
Between(a, b) == {x \in Coord : Min(a, b) < x /\ x < Max(a, b)}

\* the piece of (r, c) reaches (row, col) along its row or its column over
\* empty squares
ReachesStraight(sq, r, c, row, col) ==
    \/ row = r /\ \A x \in Between(c, col) : sq[r][x] = Empty
    \/ col = c /\ \A y \in Between(r, row) : sq[y][c] = Empty

\* the piece of (r, c) reaches (row, col) along a diagonal over empty squares
ReachesDiagonal(sq, r, c, row, col) ==
    /\ Abs(row - r) = Abs(col - c)
    /\ \A k \in 1..(Abs(row - r) - 1) :
           sq[r + k * Sign(row - r)][c + k * Sign(col - c)] = Empty

\* the attack rules: the piece of (r, c) attacks (row, col)
Attacks(sq, r, c, row, col) ==
    LET piece == sq[r][c]
    IN  \/ piece = "PawnWhite" /\ row = r - 1 /\ col \in {c - 1, c + 1}
        \/ piece = "PawnBlack" /\ row = r + 1 /\ col \in {c - 1, c + 1}
        \/ piece \in {"KingWhite", "KingBlack"}
               /\ row \in {r - 1, r, r + 1} /\ col \in {c - 1, c, c + 1}
        \/ piece \in {"KnightWhite", "KnightBlack"}
               /\ <<Abs(row - r), Abs(col - c)>> \in {<<1, 2>>, <<2, 1>>}
        \/ piece \in {"RookWhite", "RookBlack"} /\ ReachesStraight(sq, r, c, row, col)
        \/ piece \in {"BishopWhite", "BishopBlack"} /\ ReachesDiagonal(sq, r, c, row, col)
        \/ piece \in {"QueenWhite", "QueenBlack"}
               /\ (ReachesStraight(sq, r, c, row, col) \/ ReachesDiagonal(sq, r, c, row, col))

\* C16: is_square_under_attack(square, color) is true exactly when some piece of
\* that colour attacks the square: a pawn attacks the two squares diagonally one
\* row forward (row-1 for white, row+1 for black) whatever stands there and never
\* the square straight ahead; a king attacks the squares within one row and one
\* column of its own and never through castling; a rook, bishop, queen and knight
\* attack the squares their movement shape reaches.
C16_AttackRelation ==
    \A row \in Coord, col \in Coord, by_white \in BOOLEAN :
        is_square_under_attack(board, row, col, by_white)
        <=> \E r \in Coord, c \in Coord :
                /\ board.squares[r][c] \in (IF by_white THEN WhitePieces ELSE BlackPieces)
                /\ Attacks(board.squares, r, c, row, col)

\* the white king of e4 is attacked by the black pawn of d5 and by nothing else
C16_Witness ==
    /\ board.squares[4][4] = "KingWhite"
    /\ board.squares[3][3] = "PawnBlack"
    /\ is_square_under_attack(board, 4, 4, FALSE)
    /\ ~is_square_under_attack([board EXCEPT !.squares[3][3] = Empty], 4, 4, FALSE)

\* the straight pawn moves of the rules: one row forward, or two rows forward
\* from the starting row, onto an empty square
StraightPawnShape(sq, r, c, to_row) ==
    LET forward == IF sq[r][c] = "PawnWhite" THEN -1 ELSE 1
        start   == IF sq[r][c] = "PawnWhite" THEN 6 ELSE 1
    IN  /\ sq[to_row][c] = Empty
        /\ to_row = r + forward \/ (r = start /\ to_row = r + 2 * forward)

\* C17: a pawn's straight (same-column) move is shape-legal exactly when the
\* destination is empty and it is either one row forward, or two rows forward
\* from the pawn's starting row (row 6 for white, row 1 for black); the square
\* between is not consulted for the two-row advance, which is accepted, subject
\* to king safety, whether that square is empty or occupied by a piece of
\* either colour.
C17_PawnStraightMove ==
    \A r \in Coord, c \in Coord, to_row \in Coord :
        LET piece == board.squares[r][c]
        IN  is_pawn(piece) =>
              /\ is_pawn_move_valid(board, piece, r, c, to_row, c)
                     <=> StraightPawnShape(board.squares, r, c, to_row)
              /\ is_white(piece) = board.white_to_move =>
                     (is_valid_move(board, r, c, to_row, c)
                          <=> /\ StraightPawnShape(board.squares, r, c, to_row)
                              /\ ~would_be_in_check_after_move(board, r, c, to_row, c))

\* a pawn has just advanced two rows over an occupied square
C17_Witness ==
    /\ ret
    /\ is_pawn(last.piece)
    /\ Abs(last.to[1] - last.from[1]) = 2
    /\ board.squares[(last.from[1] + last.to[1]) \div 2][last.from[2]] # Empty

\* the displacement of a knight
KnightShape(r, c, row, col) ==
    <<Abs(row - r), Abs(col - c)>> \in {<<1, 2>>, <<2, 1>>}

\* C18: whenever make_move succeeds for a rook, bishop or queen, the displacement
\* is purely horizontal or vertical (rook, queen) or purely diagonal (bishop,
\* queen) and every square strictly between origin and destination was empty on
\* the board before the move; a knight move succeeds only with a displacement of
\* (2,1) or (1,2), and no piece standing between blocks it.
C18_SlidersAndKnights ==
    /\ [][ret' =>
            LET piece == last'.piece
                r     == last'.from[1]
                c     == last'.from[2]
                row   == last'.to[1]
                col   == last'.to[2]
            IN  /\ last'.from # last'.to
                /\ piece \in {"RookWhite", "RookBlack"}
                       => ReachesStraight(board.squares, r, c, row, col)
                /\ piece \in {"BishopWhite", "BishopBlack"}
                       => ReachesDiagonal(board.squares, r, c, row, col)
                /\ piece \in {"QueenWhite", "QueenBlack"}
                       => \/ ReachesStraight(board.squares, r, c, row, col)
                          \/ ReachesDiagonal(board.squares, r, c, row, col)
                /\ piece \in {"KnightWhite", "KnightBlack"}
                       => KnightShape(r, c, row, col)]_vars
    /\ [](\A r \in Coord, c \in Coord, row \in Coord, col \in Coord :
            (/\ board.squares[r][c] =
                    (IF board.white_to_move THEN "KnightWhite" ELSE "KnightBlack")
             /\ KnightShape(r, c, row, col)
             /\ ~is_same_color(board.squares[r][c], board.squares[row][col]))
            => (is_valid_move(board, r, c, row, col)
                    <=> ~would_be_in_check_after_move(board, r, c, row, col)))

\* a rook, bishop or queen has just moved over at least one square between its
\* origin and its destination
C18_Witness ==
    /\ ret
    /\ last.piece \in {"RookWhite", "RookBlack", "BishopWhite", "BishopBlack",
                       "QueenWhite", "QueenBlack"}
    /\ Abs(last.to[1] - last.from[1]) >= 2 \/ Abs(last.to[2] - last.from[2]) >= 2

\* the flags a move of the piece from the square sets according to the rules
FlagsSetBy(piece, from) ==
    IF piece = "KingWhite" THEN {"white_king_moved"}
    ELSE IF piece = "KingBlack" THEN {"black_king_moved"}
    ELSE IF piece = "RookWhite" /\ from = <<7, 0>> THEN {"white_rook_queenside_moved"}
    ELSE IF piece = "RookWhite" /\ from = <<7, 7>> THEN {"white_rook_kingside_moved"}
    ELSE IF piece = "RookBlack" /\ from = <<0, 0>> THEN {"black_rook_queenside_moved"}
    ELSE IF piece = "RookBlack" /\ from = <<0, 7>> THEN {"black_rook_kingside_moved"}
    ELSE {}

\* C19: a successful make_move changes the castling-rights flags in this way and
\* no other: moving a king sets only that colour's king-moved flag; moving a rook
\* from one of its own colour's two back-rank corners sets only the flag of that
\* corner; moving a rook from any other square, moving any other piece, and
\* capturing a rook on its corner leave all six flags unchanged.
C19_FlagChanges ==
    [][ret' =>
         \A f \in Flags :
             board'.game_state[f] =
                 (board.game_state[f] \/ f \in FlagsSetBy(last'.piece, last'.from))]_vars

\* a rook has just been captured on its corner and its flag is still false
C19_Witness ==
    /\ ret
    /\ last.target = "RookWhite"
    /\ last.to = <<7, 7>>
    /\ ~board.game_state.white_rook_kingside_moved

\* the move satisfies legality conditions 1-3 (own piece, no self-capture, shape
\* rule) and its execution by make_move, the pawn captured en passant removed,
\* leaves the mover's king unattacked
EscapesCheck(from_row, from_col, to_row, to_col) ==
    LET piece  == board.squares[from_row][from_col]
        target == board.squares[to_row][to_col]
    IN  /\ piece \in (IF board.white_to_move THEN WhitePieces ELSE BlackPieces)
        /\ ~is_same_color(piece, target)
        /\ is_piece_move_valid(board, piece, from_row, from_col, to_row, to_col)
        /\ ~is_in_check(make_move_applied(board, from_row, from_col, to_row, to_col),
                        board.white_to_move)

\* the pawn that has just advanced two rows attacks the king of the side to move
CheckedByAdvancedPawn ==
    /\ ret
    /\ is_pawn(last.piece)
    /\ Abs(last.to[1] - last.from[1]) = 2
    /\ \E k \in Kings(board.white_to_move) :
           can_piece_attack(board, last.piece, last.to[1], last.to[2], k[1], k[2])

\* C20: is_checkmate() is true only where the side to move cannot escape check: no
\* pair of squares satisfies legality conditions 1-3 and, fully executed (the pawn
\* captured en passant removed), leaves the mover's king unattacked.  In
\* particular, when the checking piece is a pawn that has just advanced two rows
\* and an en passant capture of it is shape-legal and escapes, that capture is
\* accepted and is_checkmate() is false.
C20_CheckmateHasNoEscape ==
    /\ is_checkmate(board) =>
           ~\E from_row \in Coord, from_col \in Coord, to_row \in Coord, to_col \in Coord :
                EscapesCheck(from_row, from_col, to_row, to_col)
    /\ CheckedByAdvancedPawn =>
           \A from_row \in Coord, from_col \in Coord :
               LET ep == board.game_state.en_passant_target
               IN  (/\ is_pawn(board.squares[from_row][from_col])
                    /\ from_col # ep[2]
                    /\ EscapesCheck(from_row, from_col, ep[1], ep[2]))
                   => /\ is_valid_move(board, from_row, from_col, ep[1], ep[2])
                      /\ ~is_checkmate(board)

\* C21: checkmate and stalemate are absorbing: from a state in which is_checkmate()
\* or is_stalemate() is true, every make_move call returns false and leaves the
\* squares, the side to move and the game state unchanged, so the same query is
\* true in the next state as well.
C21_EndOfGameAbsorbing ==
    [][(is_checkmate(board) \/ is_stalemate(board)) =>
           /\ ~ret'
           /\ board' = board]_vars

\* make_move has just returned false on a stalemated board
C21_Witness ==
    /\ is_stalemate(board)
    /\ ~ret
    /\ last = NoMove
    /\ step = Len(Games[game])

\* the number of squares of the board holding a piece of the set
PieceCount(self, pieces) ==
    Cardinality({sq \in Coord \X Coord : self.squares[sq[1]][sq[2]] \in pieces})

\* C22: every successful make_move removes at most one piece from the board, that
\* piece belongs to the opponent of the mover, and no piece of the mover's colour
\* disappears; the total number of pieces never increases.
C22_AtMostOnePieceRemoved ==
    [][ret' =>
         LET mover    == IF board.white_to_move THEN WhitePieces ELSE BlackPieces
             opponent == IF board.white_to_move THEN BlackPieces ELSE WhitePieces
         IN  /\ PieceCount(board', mover) = PieceCount(board, mover)
             /\ PieceCount(board', opponent) >= PieceCount(board, opponent) - 1
             /\ PieceCount(board', opponent) <= PieceCount(board, opponent)]_vars

\* C23: whenever en_passant_target is Some((r, c)), either black is to move, r = 5
\* and square (4, c) holds a white pawn, or white is to move, r = 2 and square
\* (3, c) holds a black pawn; hence the captured-pawn row of make_move (r + 1 for a
\* white capturer, r - 1 for a black one) is within 0..7 and addresses a pawn of
\* the opponent.
C23_EnPassantTargetPlace ==
    LET ep == board.game_state.en_passant_target
    IN  ep # None =>
            /\ \/ /\ ~board.white_to_move
                  /\ ep[1] = 5
                  /\ board.squares[4][ep[2]] = "PawnWhite"
               \/ /\ board.white_to_move
                  /\ ep[1] = 2
                  /\ board.squares[3][ep[2]] = "PawnBlack"
            /\ LET captured_pawn_row == IF board.white_to_move THEN ep[1] + 1 ELSE ep[1] - 1
               IN  /\ captured_pawn_row \in Coord
                   /\ board.squares[captured_pawn_row][ep[2]] =
                          IF board.white_to_move THEN "PawnBlack" ELSE "PawnWhite"

\* white is to move with an en passant target on row 2, and a white pawn stands
\* next to the black pawn that advanced
C23_Witness ==
    LET ep == board.game_state.en_passant_target
    IN  /\ ep # None
        /\ board.white_to_move
        /\ \E c \in Coord : Abs(c - ep[2]) = 1 /\ board.squares[3][c] = "PawnWhite"

\* the standard starting position, row by row from black's back rank
StandardPosition ==
    <<<<"RookBlack", "KnightBlack", "BishopBlack", "QueenBlack",
        "KingBlack", "BishopBlack", "KnightBlack", "RookBlack">>,
      <<"PawnBlack", "PawnBlack", "PawnBlack", "PawnBlack",
        "PawnBlack", "PawnBlack", "PawnBlack", "PawnBlack">>,
      <<Empty, Empty, Empty, Empty, Empty, Empty, Empty, Empty>>,
      <<Empty, Empty, Empty, Empty, Empty, Empty, Empty, Empty>>,
      <<Empty, Empty, Empty, Empty, Empty, Empty, Empty, Empty>>,
      <<Empty, Empty, Empty, Empty, Empty, Empty, Empty, Empty>>,
      <<"PawnWhite", "PawnWhite", "PawnWhite", "PawnWhite",
        "PawnWhite", "PawnWhite", "PawnWhite", "PawnWhite">>,
      <<"RookWhite", "KnightWhite", "BishopWhite", "QueenWhite",
        "KingWhite", "BishopWhite", "KnightWhite", "RookWhite">>>>

\* the twenty first moves: the advances of the white pawns and b1-a3, b1-c3,
\* g1-f3, g1-h3
FirstMoves ==
    {<<6, c, 5, c>> : c \in Coord} \cup {<<6, c, 4, c>> : c \in Coord}
        \cup {<<7, 1, 5, 0>>, <<7, 1, 5, 2>>, <<7, 6, 5, 5>>, <<7, 6, 5, 7>>}

\* C24: Board::new() yields the standard starting position with white to move, all
\* six castling flags false and no en passant target; in that state is_valid_move
\* is true for exactly 20 pairs of squares, the one-row and two-row advances of
\* the eight white pawns and the four knight moves, and is_checkmate() and
\* is_stalemate() are both false.
C24_StartingPosition ==
    (step = 0 /\ free = 0) =>
        /\ \A r \in Coord, c \in Coord : board.squares[r][c] = StandardPosition[r + 1][c + 1]
        /\ board.white_to_move
        /\ \A f \in Flags : ~board.game_state[f]
        /\ board.game_state.en_passant_target = None
        /\ {m \in Coord \X Coord \X Coord \X Coord :
                is_valid_move(board, m[1], m[2], m[3], m[4])} = FirstMoves
        /\ Cardinality(FirstMoves) = 20
        /\ ~is_checkmate(board)
        /\ ~is_stalemate(board)

\* the board of Board::new(), before and after a rejected call
C24_Witness ==
    /\ step = 0
    /\ free = 0
    /\ board = BoardNew
    /\ ~ret

\* the pieces of the side to move
CurrentPlayerPieces ==
    IF board.white_to_move THEN WhitePieces ELSE BlackPieces

\* C25: under the clicks of handle_square_click from ChessApp::default(), the
\* selection is always None or a square holding a piece of the side to move; it
\* becomes None after every successful move and after a click on the selected
\* square, and a failed move attempt selects the clicked square if it holds a
\* piece of the side to move and leaves the selection unchanged otherwise.
C25_Selection ==
    /\ [](selected # None =>
              board.squares[selected[1]][selected[2]] \in CurrentPlayerPieces)
    /\ [][\A row \in Coord, col \in Coord :
            (~game_over /\ selected # None /\ square_clicked(row, col)) =>
                IF selected = <<row, col>>
                THEN selected' = None
                ELSE IF ret'
                     THEN selected' = None
                     ELSE selected' =
                              IF board.squares[row][col] \in CurrentPlayerPieces
                              THEN <<row, col>>
                              ELSE selected]_vars

\* after the opening a move attempt has failed and a square is selected
C25_Witness ==
    /\ step = Len(Games[game])
    /\ step > 0
    /\ free > 0
    /\ ~ret
    /\ ~game_over
    /\ selected # None

\* C26: game_over becomes true exactly when a click produces a successful
\* make_move after which is_checkmate() or is_stalemate() holds; while game_over
\* is true the clicks on squares are ignored, so the board, the side to move and
\* the selection stay as they are and game_over stays true, until New Game resets
\* the state to ChessApp::default().
C26_GameOver ==
    [][/\ (~game_over /\ game_over')
              <=> /\ ~game_over
                  /\ ret'
                  /\ board' # board
                  /\ is_checkmate(board') \/ is_stalemate(board')
       /\ game_over =>
              \/ /\ board' = board
                 /\ selected' = selected
                 /\ game_over'
              \/ /\ board' = BoardNew
                 /\ selected' = None
                 /\ ~game_over']_vars

\* a click has been ignored after the game ended in stalemate
C26_Witness ==
    /\ game_over
    /\ is_stalemate(board)
    /\ free > 0

=============================================================================
